---- MODULE Spec2Model ----
(***************************************************************************)
(* Contacts repository of the REST API (src/src/repository/contacts.py,    *)
(* src/src/routes/contacts.py, src/src/entity/models.py,                   *)
(* src/src/schema/contact.py).                                             *)
(*                                                                         *)
(* The state is the `contacts' table, the primary-key generator, the       *)
(* database clock used by func.now(), the calendar date returned by        *)
(* date.today(), and the outcome of the last request (`resp').  Every      *)
(* action is one request: the route handler together with the repository   *)
(* coroutine it awaits.                                                    *)
(***************************************************************************)
EXTENDS Integers, Sequences, FiniteSets, TLC

VARIABLES contacts, nextId, now, today, resp, usedIds, deletedIds

vars == <<contacts, nextId, now, today, resp, usedIds, deletedIds>>

----------------------------------------------------------------------------
(* Bounds of the model.                                                    *)

\* primary keys handed out in one run
MaxId == 3
\* values of the database clock (one tick per writing transaction)
MaxClock == 3
\* midnights that pass during one run
MaxDays == 2
\* calendar years the birthday-window specification lets `today' range over
NumYears == 2
\* largest `limit' and `offset' a list request is tried with
MaxLimit == 2

----------------------------------------------------------------------------
(* Calendar dates: datetime.date as a record [y, m, d].                    *)

IsLeap(y) == (y % 4 = 0 /\ y % 100 # 0) \/ y % 400 = 0

DaysInMonth(y, m) ==
    IF m = 2 THEN (IF IsLeap(y) THEN 29 ELSE 28)
    ELSE IF m \in {4, 6, 9, 11} THEN 30 ELSE 31

Date(y, m, d) == [y |-> y, m |-> m, d |-> d]

DatesOfYear(y) ==
    UNION { { Date(y, m, d) : d \in 1..DaysInMonth(y, m) } : m \in 1..12 }

\* date.__lt__ / date.__ge__ : chronological order
DateLT(a, b) ==
    \/ a.y < b.y
    \/ a.y = b.y /\ a.m < b.m
    \/ a.y = b.y /\ a.m = b.m /\ a.d < b.d

DateGE(a, b) == ~ DateLT(a, b)

NextDate(a) ==
    IF a.d < DaysInMonth(a.y, a.m) THEN Date(a.y, a.m, a.d + 1)
    ELSE IF a.m < 12 THEN Date(a.y, a.m + 1, 1)
    ELSE Date(a.y + 1, 1, 1)

\* date + timedelta(days=n)
RECURSIVE AddDays(_, _)
AddDays(a, n) == IF n = 0 THEN a ELSE AddDays(NextDate(a), n - 1)

----------------------------------------------------------------------------
(* Users, request bodies and rows.                                         *)

\* users.id of the authenticated callers
Users == {1, 2}

\* Contact.user_id of a row without owner (the column is nullable)
NoUser == 0

\* str values are sequences of characters
S_Al == <<"A", "l">>
S_al == <<"a", "l">>
S_Bo == <<"B", "o">>
S_Di == <<"D", "i">>
S_Cy == <<"C", "y">>
E_a  == <<"a", "@", "x">>
E_c  == <<"c", "@", "x">>
P_1  == <<"1">>
P_2  == <<"2">>

\* date.today() when the run starts
Today0 == Date(2023, 2, 25)

\* ContactSchema / ContactUpdate instances the requests carry
Body(n, s, e, p, b) ==
    [name |-> n, surname |-> s, email |-> e, phone |-> p, birthday |-> b]

Bodies ==
    { Body(S_Al, S_Bo, E_a, P_1, Date(2000, 2, 29)),
      Body(S_al, S_Di, E_a, P_2, Date(2023, 2, 26)),
      Body(S_Cy, S_Di, E_c, P_1, Date(1999, 2, 27)) }

\* body.model_dump(): the five fields of a row that come from the request
Dump(c) == Body(c.name, c.surname, c.email, c.phone, c.birthday)

----------------------------------------------------------------------------
(* The contacts table (src/src/entity/models.py).                          *)

\* a create that stores the surname as name and the name as surname
NewContactSwapped(body, u, id, t) ==
    [id |-> id, name |-> body.surname, surname |-> body.name,
     email |-> body.email, phone |-> body.phone, birthday |-> body.birthday,
     created_at |-> t, updated_at |-> t, user_id |-> u]

\* Contact(**body.model_dump(), user=user) as the INSERT stores it: the
\* primary key comes from the generator, created_at and updated_at take
\* their default func.now()
NewContact(body, u, id, t) ==
    [id |-> id, name |-> body.name, surname |-> body.surname,
     email |-> body.email, phone |-> body.phone, birthday |-> body.birthday,
     created_at |-> t, updated_at |-> t, user_id |-> u]

\* a key generator that hands out the largest stored key plus one
ReusedPrimaryKey ==
    IF contacts = {} THEN 1
    ELSE 1 + CHOOSE k \in { c.id : c \in contacts } : \A c \in contacts : c.id <= k

\* id: mapped_column(primary_key=True): the key the database gives the next
\* inserted row, taken from a generator that only counts upwards
NextPrimaryKey == nextId

\* a delete that is never committed
DeleteRowNoCommit(table, c) == table

\* db.delete(contact) followed by db.commit()
DeleteRow(table, c) == table \ {c}

\* a table without the unique index
UniqueEmailUnchecked(table) == TRUE

\* email: mapped_column(unique=True): what the table's unique index admits
UniqueEmail(table) ==
    \A c1 \in table : \A c2 \in table : c1.email = c2.email => c1 = c2

\* the rows of a result, in an order the database is free to choose (no
\* statement of the repository has an ORDER BY)
Orderings(S) ==
    { f \in [1..Cardinality(S) -> S] : \A i, j \in 1..Cardinality(S) : f[i] = f[j] => i = j }

\* .offset(offset).limit(limit) applied to the ordered rows
Page(rows, limit, offset) ==
    SubSeq(rows, offset + 1, IF offset + limit < Len(rows) THEN offset + limit ELSE Len(rows))

----------------------------------------------------------------------------
(* ILIKE.                                                                  *)

\* lower-case folding of the characters that occur in the model
Lower(ch) ==
    CASE ch = "A" -> "a"
      [] ch = "B" -> "b"
      [] ch = "C" -> "c"
      [] ch = "D" -> "d"
      [] ch = "L" -> "l"
      [] OTHER -> ch

\* SQL LIKE on case-folded operands: % matches any run of characters,
\* _ matches exactly one character
RECURSIVE LikeMatch(_, _)
LikeMatch(p, s) ==
    IF p = <<>> THEN s = <<>>
    ELSE IF Head(p) = "%"
         THEN LikeMatch(Tail(p), s) \/ (s # <<>> /\ LikeMatch(p, Tail(s)))
         ELSE /\ s # <<>>
              /\ (Head(p) = "_" \/ Lower(Head(p)) = Lower(Head(s)))
              /\ LikeMatch(Tail(p), Tail(s))

\* column.ilike(f"%{value}%")
ILikeContains(column, value) == LikeMatch(<<"%">> \o value \o <<"%">>, column)

----------------------------------------------------------------------------
(* Statements of the repository.                                           *)

\* select(Contact).filter_by(user=user) with the optional ilike filters
\* (a filter that is None or "" is not applied)
ListStatement(u, name, surname, email) ==
    { c \in contacts :
        /\ c.user_id = u
        /\ (name # <<>> => ILikeContains(c.name, name))
        /\ (surname # <<>> => ILikeContains(c.surname, surname))
        /\ (email # <<>> => ILikeContains(c.email, email)) }

\* select(Contact).filter_by(id=contact_id, user=user) of get_contact
GetStatement(id, u) == { c \in contacts : c.id = id /\ c.user_id = u }

\* an update that looks the contact up by id alone
UpdateStatementAnyUser(id, u) == { c \in contacts : c.id = id }

\* select(Contact).filter_by(id=contact_id, user=user) of update_contact
UpdateStatement(id, u) == { c \in contacts : c.id = id /\ c.user_id = u }

\* select(Contact).filter_by(id=contact_id, user=user) of delete_contact
DeleteStatement(id, u) == { c \in contacts : c.id = id /\ c.user_id = u }

\* the filter with a window that excludes the day today + 7
BirthdayFilterExclusive(t, b) ==
    LET next_week == AddDays(t, 7) IN
    \/ /\ b.m = t.m
       /\ b.d >= t.d
       /\ b.m = next_week.m
       /\ b.d < next_week.d
    \/ /\ t.m # next_week.m
       /\ \/ b.m = t.m /\ b.d >= t.d
          \/ b.m = next_week.m /\ b.d < next_week.d

\* the filter without its branch for a window that crosses a month end
BirthdayFilterSameMonthOnly(t, b) ==
    LET next_week == AddDays(t, 7) IN
    /\ b.m = t.m
    /\ b.d >= t.d
    /\ b.m = next_week.m
    /\ b.d <= next_week.d

\* the filter of get_upcoming_birthdays on one birthday, with t = date.today()
BirthdayFilter(t, b) ==
    LET next_week == AddDays(t, 7) IN
    \/ /\ b.m = t.m
       /\ b.d >= t.d
       /\ b.m = next_week.m
       /\ b.d <= next_week.d
    \/ /\ t.m # next_week.m
       /\ \/ b.m = t.m /\ b.d >= t.d
          \/ b.m = next_week.m /\ b.d <= next_week.d

\* select(Contact).filter(or_(...)) of get_upcoming_birthdays(db, user)
BirthdayStatement(u) == { c \in contacts : BirthdayFilter(today, c.birthday) }

----------------------------------------------------------------------------
(* Requests.  `resp' records the last request and its outcome: the HTTP    *)
(* status of the route, the value the repository coroutine returned (a     *)
(* sequence of rows, empty for None), and whether the coroutine awaited    *)
(* db.close() before it returned or raised.                                *)

NoArgs == [limit |-> 0, offset |-> 0, name |-> <<>>, surname |-> <<>>, email |-> <<>>]

Response(op, u, id, body, args, status, result, closed) ==
    [op |-> op, user |-> u, id |-> id, body |-> body, args |-> args,
     status |-> status, result |-> result, closed |-> closed]

Init ==
    /\ contacts = {}
    /\ nextId = 1
    /\ now = 0
    /\ today = Today0
    /\ resp = Response("none", NoUser, 0, <<>>, NoArgs, 0, <<>>, FALSE)
    /\ usedIds = {}
    /\ deletedIds = {}

\* a check that rejects only birthdays after today
BirthdayRejectedFutureOnly(birthday, t) == DateLT(t, birthday)

\* body.birthday >= date.today()
BirthdayRejected(birthday, t) == DateGE(birthday, t)

\* an except branch that leaves the rejected write in place
RollbackMissing(pending, committed) == pending

\* db.rollback() in the except branch of create_contact: the table goes
\* back from what the session had written to what was committed
Rollback(pending, committed) == committed

\* POST /contacts/ : create_contact(body, db, user)
CreateContact(u, body) ==
    IF BirthdayRejected(body.birthday, today)
    THEN \* raised before the try block: nothing is written, nothing is closed
         /\ resp' = Response("create", u, 0, <<body>>, NoArgs, 400, <<>>, FALSE)
         /\ UNCHANGED <<contacts, nextId, now, today, usedIds, deletedIds>>
    ELSE IF ~ UniqueEmail(contacts \cup {NewContact(body, u, NextPrimaryKey, now + 1)})
    THEN \* SQLAlchemyError at commit: rollback, 500, close in finally
         /\ contacts' = Rollback(contacts \cup {NewContact(body, u, NextPrimaryKey, now + 1)}, contacts)
         /\ resp' = Response("create", u, 0, <<body>>, NoArgs, 500, <<>>, TRUE)
         /\ UNCHANGED <<nextId, now, today, usedIds, deletedIds>>
    ELSE /\ nextId <= MaxId
         /\ now < MaxClock
         /\ LET contact == NewContact(body, u, NextPrimaryKey, now + 1) IN
               /\ contacts' = contacts \cup {contact}
               /\ resp' = Response("create", u, contact.id, <<body>>, NoArgs, 201, <<contact>>, TRUE)
               /\ usedIds' = usedIds \cup {contact.id}
               /\ deletedIds' = deletedIds \ {contact.id}
         /\ nextId' = nextId + 1
         /\ now' = now + 1
         /\ UNCHANGED today

\* an update that merges: the stored phone is kept
UpdatedKeepsPhone(c, body, t) ==
    IF Dump(c) = body THEN c
    ELSE [c EXCEPT !.name = body.name, !.surname = body.surname,
                   !.email = body.email, !.birthday = body.birthday,
                   !.updated_at = t]

\* the row after the setattr loop of update_contact and the flush: the
\* UPDATE is emitted, and updated_at takes onupdate=func.now(), only when
\* some attribute differs from its loaded value
Updated(c, body, t) ==
    IF Dump(c) = body THEN c
    ELSE [c EXCEPT !.name = body.name, !.surname = body.surname,
                   !.email = body.email, !.phone = body.phone,
                   !.birthday = body.birthday, !.updated_at = t]

\* PUT /contacts/{id} : update_contact(contact_id, contact_update, db, user)
UpdateContact(u, id, body) ==
    IF UpdateStatement(id, u) = {}
    THEN /\ resp' = Response("update", u, id, <<body>>, NoArgs, 404, <<>>, FALSE)
         /\ UNCHANGED <<contacts, nextId, now, today, usedIds, deletedIds>>
    ELSE LET existing_contact == CHOOSE c \in UpdateStatement(id, u) : TRUE
             updated == Updated(existing_contact, body, now + 1)
             table == (contacts \ {existing_contact}) \cup {updated}
         IN  IF ~ UniqueEmail(table)
             THEN \* the commit raises; nothing catches it, nothing is closed
                  /\ resp' = Response("update", u, id, <<body>>, NoArgs, 500, <<>>, FALSE)
                  /\ UNCHANGED <<contacts, nextId, now, today, usedIds, deletedIds>>
             ELSE /\ updated # existing_contact => now < MaxClock
                  /\ contacts' = table
                  /\ now' = IF updated # existing_contact THEN now + 1 ELSE now
                  /\ resp' = Response("update", u, id, <<body>>, NoArgs, 200, <<updated>>, TRUE)
                  /\ UNCHANGED <<nextId, today, usedIds, deletedIds>>

\* DELETE /contacts/{id} : delete_contact(contact_id, db, user)
DeleteContact(u, id) ==
    IF DeleteStatement(id, u) = {}
    THEN /\ resp' = Response("delete", u, id, <<>>, NoArgs, 404, <<>>, FALSE)
         /\ UNCHANGED <<contacts, nextId, now, today, usedIds, deletedIds>>
    ELSE LET contact == CHOOSE c \in DeleteStatement(id, u) : TRUE IN
         /\ contacts' = DeleteRow(contacts, contact)
         /\ deletedIds' = deletedIds \cup {id}
         /\ resp' = Response("delete", u, id, <<>>, NoArgs, 204, <<contact>>, FALSE)
         /\ UNCHANGED <<nextId, now, today, usedIds>>

\* GET /contacts/{id} : get_contact(contact_id, db, user)
GetContact(u, id) ==
    /\ \E rows \in Orderings(GetStatement(id, u)) :
          resp' = Response("get", u, id, <<>>, NoArgs,
                           IF rows = <<>> THEN 404 ELSE 200, rows, TRUE)
    /\ UNCHANGED <<contacts, nextId, now, today, usedIds, deletedIds>>

\* GET /contacts/ : get_contacts(limit, offset, name, surname, email, db, user)
GetContacts(u, limit, offset, name, surname, email) ==
    /\ \E rows \in Orderings(ListStatement(u, name, surname, email)) :
          LET result == Page(rows, limit, offset)
              args == [limit |-> limit, offset |-> offset, name |-> name,
                       surname |-> surname, email |-> email]
          IN  resp' = Response("list", u, 0, <<>>, args,
                               IF result = <<>> THEN 404 ELSE 200, result, TRUE)
    /\ UNCHANGED <<contacts, nextId, now, today, usedIds, deletedIds>>

\* GET /contacts/all : get_all_contacts(limit, offset, db)
GetAllContacts(u, limit, offset) ==
    /\ \E rows \in Orderings(contacts) :
          LET result == Page(rows, limit, offset)
              args == [NoArgs EXCEPT !.limit = limit, !.offset = offset]
          IN  resp' = Response("all", u, 0, <<>>, args,
                               IF result = <<>> THEN 404 ELSE 200, result, TRUE)
    /\ UNCHANGED <<contacts, nextId, now, today, usedIds, deletedIds>>

\* GET /contacts/birthday/ : get_upcoming_birthdays(db, user)
GetUpcomingBirthdays(u) ==
    /\ \E rows \in Orderings(BirthdayStatement(u)) :
          resp' = Response("birthdays", u, 0, <<>>, NoArgs,
                           IF rows = <<>> THEN 404 ELSE 200, rows, TRUE)
    /\ UNCHANGED <<contacts, nextId, now, today, usedIds, deletedIds>>

\* midnight passes: date.today() moves to the next day
NextDay ==
    /\ DateLT(today, AddDays(Today0, MaxDays))
    /\ today' = NextDate(today)
    /\ resp' = Response("midnight", NoUser, 0, <<>>, NoArgs, 0, <<>>, FALSE)
    /\ UNCHANGED <<contacts, nextId, now, usedIds, deletedIds>>

\* ids a request may name: every id handed out so far and one that never was
Ids == 1..(MaxId + 1)

Next ==
    \/ \E u \in Users, body \in Bodies : CreateContact(u, body)
    \/ \E u \in Users, id \in Ids, body \in Bodies : UpdateContact(u, id, body)
    \/ \E u \in Users, id \in Ids : DeleteContact(u, id)
    \/ \E u \in Users, id \in Ids : GetContact(u, id)
    \/ \E u \in Users : GetUpcomingBirthdays(u)
    \/ NextDay

Spec == Init /\ [][Next]_vars

----------------------------------------------------------------------------
(* Listing: the table is filled by create requests and read by list        *)
(* requests with every combination of the filters below.                   *)

NameFilters == { <<>>, <<"a", "L">>, <<"_">> }
SurnameFilters == { <<>>, <<"d">> }
EmailFilters == { <<>>, <<"@", "X">> }

NextList ==
    \/ \E u \in Users, body \in Bodies : CreateContact(u, body)
    \/ \E u \in Users, limit \in 0..MaxLimit, offset \in 0..MaxLimit,
          name \in NameFilters, surname \in SurnameFilters, email \in EmailFilters :
          GetContacts(u, limit, offset, name, surname, email)
    \/ \E u \in Users, limit \in 0..MaxLimit, offset \in 0..MaxLimit :
          GetAllContacts(u, limit, offset)

SpecList == Init /\ [][NextList]_vars

----------------------------------------------------------------------------
(* Birthday window: one stored contact with any birthday of a leap year,   *)
(* and get_upcoming_birthdays called by its owner on any day of NumYears   *)
(* consecutive years.                                                      *)

\* the first day `today' ranges over
FirstDay == Date(2023, 1, 1)

\* the birthdays the stored contact ranges over: every day of a leap year
BirthDates == DatesOfYear(2000)

InitBirthday ==
    /\ today \in UNION { DatesOfYear(y) : y \in FirstDay.y..(FirstDay.y + NumYears - 1) }
    /\ \E b \in BirthDates :
          contacts = { NewContact(Body(S_Al, S_Bo, E_a, P_1, b), 1, 1, 1) }
    /\ nextId = 2
    /\ now = 1
    /\ resp = Response("none", NoUser, 0, <<>>, NoArgs, 0, <<>>, FALSE)
    /\ usedIds = {1}
    /\ deletedIds = {}

NextBirthday == GetUpcomingBirthdays(1)

SpecBirthday == InitBirthday /\ [][NextBirthday]_vars

----------------------------------------------------------------------------
(* Properties.                                                             *)

\* value contains sub as a substring, letter case ignored
FoldCase(str) == [i \in 1..Len(str) |-> Lower(str[i])]

ContainsIgnoreCase(value, sub) ==
    \E i \in 0..(Len(value) - Len(sub)) :
        FoldCase(SubSeq(value, i + 1, i + Len(sub))) = FoldCase(sub)

\* C1: a list request returns only rows owned by the caller that contain
\* every supplied filter as a case-insensitive substring, and at most
\* `limit' of them.
C1_ListOwnedMatchingBounded ==
    resp.op = "list" =>
        /\ Len(resp.result) <= resp.args.limit
        /\ \A i \in 1..Len(resp.result) :
              LET c == resp.result[i] IN
              /\ c.user_id = resp.user
              /\ ContainsIgnoreCase(c.name, resp.args.name)
              /\ ContainsIgnoreCase(c.surname, resp.args.surname)
              /\ ContainsIgnoreCase(c.email, resp.args.email)

\* C2: the upcoming-birthdays request returns only contacts owned by the
\* caller.
C2_BirthdaysOnlyOwn ==
    resp.op = "birthdays" =>
        \A i \in 1..Len(resp.result) : resp.result[i].user_id = resp.user

\* the contact with this id is stored and belongs to this user
Owns(u, id) == \E c \in contacts : c.id = id /\ c.user_id = u

\* C3: for an id that is not stored or belongs to another owner, get answers
\* not-found, update and delete answer 404, and the table is left as it was.
C3_ForeignIdNotFound ==
    [][ (resp'.op \in {"get", "update", "delete"} /\ ~ Owns(resp'.user, resp'.id))
          => /\ resp'.status = 404
             /\ resp'.result = <<>>
             /\ contacts' = contacts ]_vars

C3_Witness ==
    /\ resp.op \in {"update", "delete"}
    /\ resp.status = 404
    /\ \E c \in contacts : c.id = resp.id /\ c.user_id # resp.user

\* C4: a create whose birthday is today or later answers 400 and adds no row.
C4_BirthdayNotPastRejected ==
    [][ (resp'.op = "create" /\ DateGE(resp'.body[1].birthday, today))
          => /\ resp'.status = 400
             /\ contacts' = contacts ]_vars

C4_Witness ==
    /\ resp.op = "create"
    /\ resp.status = 400
    /\ resp.body[1].birthday = today

\* the returned contact of a successful create: owned by the caller, with an
\* id no contact has had before
CreatedFresh ==
    /\ resp'.status = 201
    /\ Len(resp'.result) = 1
    /\ resp'.result[1].user_id = resp'.user
    /\ resp'.result[1].id \notin usedIds
    /\ resp'.result[1] \in contacts'

\* C5 as stated: every create with a birthday before today succeeds.
C5_PastBirthdayAlwaysCreates ==
    [][ (resp'.op = "create" /\ DateLT(resp'.body[1].birthday, today))
          => CreatedFresh ]_vars

\* C5: a create with a birthday before today and an email no stored contact
\* has succeeds; the returned contact is owned by the caller and its id was
\* never used before, also after deletes.
C5_PastBirthdayFreshEmailCreates ==
    [][ (/\ resp'.op = "create"
         /\ DateLT(resp'.body[1].birthday, today)
         /\ \A c \in contacts : c.email # resp'.body[1].email)
          => CreatedFresh ]_vars

C5_Witness ==
    /\ resp.op = "create"
    /\ resp.status = 201
    /\ deletedIds # {}

\* C6: a delete of an owned contact returns the row as it was, removes
\* exactly that row, and every later get of that id answers not-found until a
\* create hands the id out again.
C6_DeleteRemovesRow ==
    [][ /\ (resp'.op = "delete" /\ Owns(resp'.user, resp'.id))
          => \E c \in contacts :
                /\ c.id = resp'.id
                /\ resp'.status = 204
                /\ resp'.result = <<c>>
                /\ contacts' = contacts \ {c}
        /\ (resp'.op = "get" /\ resp'.id \in deletedIds)
          => (resp'.status = 404 /\ resp'.result = <<>>) ]_vars

C6_Witness ==
    /\ resp.op = "get"
    /\ resp.id \in deletedIds
    /\ resp.status = 404
    /\ contacts # {}

\* some date of the inclusive window [t, t + 7 days] has the month and day of b
InCalendarWindow(t, b) ==
    \E k \in 0..7 : AddDays(t, k).m = b.m /\ AddDays(t, k).d = b.d

\* C7 as stated: a contact is returned exactly when its birthday's month and
\* day occur in the window.
C7_ExactCalendarWindow ==
    resp.op = "birthdays" =>
        \A c \in contacts :
            (\E i \in 1..Len(resp.result) : resp.result[i] = c)
                <=> InCalendarWindow(today, c.birthday)

\* a 29 February birthday seen from a February-to-March window of a year
\* without 29 February
LeapDayInShortFebruary(t, b) ==
    /\ b.m = 2 /\ b.d = 29
    /\ t.m = 2 /\ AddDays(t, 7).m = 3
    /\ ~ IsLeap(t.y)

\* C7: a contact is returned exactly when its birthday's month and day occur
\* in the window, or it is a 29 February birthday and the window runs from
\* February into March of a non-leap year.
C7_CalendarWindowOrLeapDay ==
    resp.op = "birthdays" =>
        \A c \in contacts :
            (\E i \in 1..Len(resp.result) : resp.result[i] = c)
                <=> \/ InCalendarWindow(today, c.birthday)
                    \/ LeapDayInShortFebruary(today, c.birthday)

C7_Witness ==
    /\ resp.op = "birthdays"
    /\ resp.status = 200
    /\ today.m = 12
    /\ resp.result[1].birthday.m = 1

\* C8: a get of the id a create just returned, by the same owner, returns the
\* submitted name, surname, email, phone and birthday.
C8_CreateThenGet ==
    [][ (/\ resp.op = "create" /\ resp.status = 201
         /\ resp'.op = "get" /\ resp'.id = resp.id /\ resp'.user = resp.user)
          => /\ resp'.status = 200
             /\ Len(resp'.result) = 1
             /\ Dump(resp'.result[1]) = resp.body[1] ]_vars

C8_Witness ==
    /\ resp.op = "get"
    /\ resp.status = 200
    /\ resp.result[1].id = nextId - 1
    /\ resp.result[1].created_at = now

\* the effect of a successful update, except for the modification timestamp
UpdateOverwrites(old, new) ==
    /\ old.id = resp'.id
    /\ new = resp'.result[1]
    /\ Dump(new) = resp'.body[1]
    /\ new.id = old.id
    /\ new.user_id = old.user_id
    /\ new.created_at = old.created_at
    /\ contacts' = (contacts \ {old}) \cup {new}

\* an update of an owned contact to an email no other contact has succeeds,
\* whatever the birthday
UpdateNotRevalidated ==
    (/\ resp'.op = "update"
     /\ Owns(resp'.user, resp'.id)
     /\ \A c \in contacts : c.id # resp'.id => c.email # resp'.body[1].email)
        => resp'.status = 200

\* C9 as stated: every successful update advances the modification timestamp.
C9_UpdateAlwaysAdvances ==
    [][ /\ UpdateNotRevalidated
        /\ (resp'.op = "update" /\ resp'.status = 200)
             => \E old \in contacts : \E new \in contacts' :
                   /\ UpdateOverwrites(old, new)
                   /\ new.updated_at > old.updated_at ]_vars

\* C9: a successful update overwrites all five fields with those of data
\* (no merge, no birthday check), keeps id, owner and creation timestamp,
\* and advances the modification timestamp when some field of data differs
\* from the stored one; with identical data the timestamp stays.
C9_UpdateAdvancesOnChange ==
    [][ /\ UpdateNotRevalidated
        /\ (resp'.op = "update" /\ resp'.status = 200)
             => \E old \in contacts : \E new \in contacts' :
                   /\ UpdateOverwrites(old, new)
                   /\ IF Dump(old) # resp'.body[1]
                      THEN new.updated_at > old.updated_at
                      ELSE new.updated_at = old.updated_at ]_vars

C9_Witness ==
    /\ resp.op = "update"
    /\ resp.status = 200
    /\ DateGE(resp.body[1].birthday, today)
    /\ resp.result[1].updated_at > resp.result[1].created_at

\* C10: no two stored contacts have the same email.
C10_EmailsDistinct ==
    \A c1 \in contacts : \A c2 \in contacts : c1 # c2 => c1.email # c2.email

C10_Witness ==
    /\ resp.op \in {"create", "update"}
    /\ resp.status = 500
    /\ Cardinality(contacts) = 2

\* the two-case rule: case A when today and the horizon are in the same
\* month, case B when the window crosses a month end
TwoCaseRule(t, b) ==
    LET horizon == AddDays(t, 7) IN
    IF t.m = horizon.m
    THEN b.m = t.m /\ t.d <= b.d /\ b.d <= horizon.d
    ELSE \/ b.m = t.m /\ b.d >= t.d
         \/ b.m = horizon.m /\ b.d <= horizon.d

\* the stored contact with this month and day, if any, is in the result
Returned(m, d) ==
    \E i \in 1..Len(resp.result) :
        resp.result[i].birthday.m = m /\ resp.result[i].birthday.d = d

Stored(m, d) == \E c \in contacts : c.birthday.m = m /\ c.birthday.d = d

\* C11: a contact is returned exactly when the two-case rule admits its
\* birthday; on 2024-01-28 the birthday (1,30) is returned and (2,10), (1,20)
\* are not, on 2024-06-01 (6,5) is returned and (6,9) is not.
C11_TwoCaseRule ==
    resp.op = "birthdays" =>
        /\ \A c \in contacts :
              (\E i \in 1..Len(resp.result) : resp.result[i] = c)
                  <=> TwoCaseRule(today, c.birthday)
        /\ today = Date(2024, 1, 28) =>
              /\ Stored(1, 30) => Returned(1, 30)
              /\ ~ Returned(2, 10)
              /\ ~ Returned(1, 20)
        /\ today = Date(2024, 6, 1) =>
              /\ Stored(6, 5) => Returned(6, 5)
              /\ ~ Returned(6, 9)

C11_Witness ==
    /\ resp.op = "birthdays"
    /\ today = Date(2024, 1, 28)
    /\ Stored(1, 30)
    /\ Returned(1, 30)

\* C12: every data-access request has awaited db.close() by the time it
\* returns or raises, whatever its outcome.
C12_HandleAlwaysClosed ==
    resp.op \in {"list", "all", "get", "create", "update", "delete", "birthdays"}
        => resp.closed

\* C13: a create that the unique index rejects (birthday in the past, email
\* already stored) answers 500, returns no contact, and leaves the table
\* exactly as it was.
C13_RejectedCreateRolledBack ==
    [][ (/\ resp'.op = "create"
         /\ DateLT(resp'.body[1].birthday, today)
         /\ \E c \in contacts : c.email = resp'.body[1].email)
          => /\ resp'.status = 500
             /\ resp'.result = <<>>
             /\ contacts' = contacts ]_vars

C13_Witness ==
    /\ resp.op = "create"
    /\ resp.status = 500
    /\ \E c \in contacts : c.email = resp.body[1].email /\ Dump(c) # resp.body[1]

====
